---- MODULE Spec2Model ----
(***************************************************************************)
(* A model of grammy-callbacks: the callback registry, the curry engine,   *)
(* the token codec with its session overflow table, and the wait protocol. *)
(*                                                                         *)
(* JavaScript strings are sequences of one-character strings, so that      *)
(* split(':'), slice, toLowerCase, JSON.stringify and JSON.parse are       *)
(* computed character by character as the code computes them.              *)
(***************************************************************************)
EXTENDS Integers, Sequences, FiniteSets, TLC

(***************************************************************************)
(* Strings                                                                 *)
(***************************************************************************)

\* The characters the model's strings are written in.
Alphabet ==
    << "0", "1", "2", "3", "4", "5", "6", "7", "8", "9",
       "a", "b", "c", "d", "e", "f", "g", "h", "i", "k", "l", "n", "o", "r", "t", "w",
       "A", "C", "E", "N", "L",
       "_", ":", ".", "/", ",", "[", "]", "\"", "\\" >>

Chars == { Alphabet[i] : i \in 1..Len(Alphabet) }

\* The code unit of a character (its place in Alphabet).
CodeOf == [ c \in Chars |-> CHOOSE i \in 1..Len(Alphabet) : Alphabet[i] = c ]

HexDigits == << "0", "1", "2", "3", "4", "5", "6", "7",
                "8", "9", "a", "b", "c", "d", "e", "f" >>

Digits == { "0", "1", "2", "3", "4", "5", "6", "7", "8", "9" }

Min(a, b) == IF a < b THEN a ELSE b

Max(a, b) == IF a > b THEN a ELSE b

\* String.prototype.slice(from, to) for 0 <= from, 0 <= to (0-based, to exclusive).
Slice(s, from, to) ==
    LET lo == Min(from, Len(s))
        hi == Min(to, Len(s))
    IN  IF hi <= lo THEN << >> ELSE SubSeq(s, lo + 1, hi)

\* String.prototype.slice(from) for 0 <= from.
SliceFrom(s, from) == Slice(s, from, Len(s))

\* String.prototype.slice(-n) for n > 0: the last n characters.
SliceLast(s, n) == Slice(s, Max(Len(s) - n, 0), Len(s))

\* String.prototype.startsWith
StartsWith(s, p) == Len(s) >= Len(p) /\ SubSeq(s, 1, Len(p)) = p

\* toLowerCase of one character.
LowerChar(c) ==
    CASE c = "A" -> "a"
      [] c = "C" -> "c"
      [] c = "E" -> "e"
      [] c = "N" -> "n"
      [] c = "L" -> "l"
      [] OTHER -> c

\* String.prototype.toLowerCase
ToLowerCase(s) == [ i \in 1..Len(s) |-> LowerChar(s[i]) ]

MinOf(S) == CHOOSE k \in S : \A j \in S : k <= j

MaxOf(S) == CHOOSE k \in S : \A j \in S : k >= j

\* The index of the first occurrence of character c in s at or after i, 0 if none.
IndexOfFrom(s, c, i) ==
    LET at == { k \in i..Len(s) : s[k] = c }
    IN  IF at = {} THEN 0 ELSE MinOf(at)

\* callbackData.split(':', 2): the first two ':'-separated fields (one if no colon).
Split2(s) ==
    LET c1 == IndexOfFrom(s, ":", 1)
    IN  IF c1 = 0 THEN << s >>
        ELSE LET c2 == IndexOfFrom(s, ":", c1 + 1)
             IN  << SubSeq(s, 1, c1 - 1),
                    SubSeq(s, c1 + 1, IF c2 = 0 THEN Len(s) ELSE c2 - 1) >>

(***************************************************************************)
(* md5Hex.  The digest is modelled by a deterministic 32-hex-digit         *)
(* polynomial digest of the content: eight words, each rendered as four    *)
(* hex digits, low digit first.  A word is                                 *)
(*   (seed * 37^n + c1 * 37^(n-1) + ... + cn) mod 32749                    *)
(* for the code units c1..cn of the content.                               *)
(***************************************************************************)

\* The polynomial of s[lo..hi] and 37^(hi-lo+1), both mod 32749.
RECURSIVE PolyRange(_, _, _)
PolyRange(s, lo, hi) ==
    IF lo > hi THEN [h |-> 0, p |-> 1]
    ELSE IF lo = hi THEN [h |-> CodeOf[s[lo]], p |-> 37]
    ELSE LET mid == (lo + hi) \div 2
             l == PolyRange(s, lo, mid)
             r == PolyRange(s, mid + 1, hi)
         IN  [h |-> (l.h * r.p + r.h) % 32749, p |-> (l.p * r.p) % 32749]

PolyDigest(s, i, seed) ==
    LET d == PolyRange(s, i, Len(s))
    IN  (seed * d.p + d.h) % 32749

Hex4(n) ==
    << HexDigits[(n % 16) + 1],
       HexDigits[((n \div 16) % 16) + 1],
       HexDigits[((n \div 256) % 16) + 1],
       HexDigits[((n \div 4096) % 16) + 1] >>

md5Hex(content) ==
    Hex4(PolyDigest(content, 1, 1)) \o Hex4(PolyDigest(content, 1, 2)) \o
    Hex4(PolyDigest(content, 1, 3)) \o Hex4(PolyDigest(content, 1, 4)) \o
    Hex4(PolyDigest(content, 1, 5)) \o Hex4(PolyDigest(content, 1, 6)) \o
    Hex4(PolyDigest(content, 1, 7)) \o Hex4(PolyDigest(content, 1, 8))

(***************************************************************************)
(* JSON.  A value is a pair <<kind, text>>: kind "n" is a number whose     *)
(* decimal digits are text, kind "s" a string whose characters are text,   *)
(* kind "u" is undefined (never inside JSON).                              *)
(***************************************************************************)

Num(digits) == << "n", digits >>

Str(chars) == << "s", chars >>

Undefined == << "u", << >> >>

\* The JSON escape of one character of a string.
EscapeChar(c) ==
    IF c = "\"" THEN << "\\", "\"" >>
    ELSE IF c = "\\" THEN << "\\", "\\" >>
    ELSE << c >>

RECURSIVE EscapeRange(_, _, _)
EscapeRange(s, lo, hi) ==
    IF lo > hi THEN << >>
    ELSE IF lo = hi THEN EscapeChar(s[lo])
    ELSE LET mid == (lo + hi) \div 2
         IN  EscapeRange(s, lo, mid) \o EscapeRange(s, mid + 1, hi)

EscapeFrom(s, i) == EscapeRange(s, i, Len(s))

StringifyValue(v) ==
    IF v[1] = "n" THEN v[2]
    ELSE IF v[1] = "s" THEN << "\"" >> \o EscapeFrom(v[2], 1) \o << "\"" >>
    ELSE << "n", "u", "l", "l" >>

RECURSIVE StringifyElems(_, _)
StringifyElems(params, i) ==
    IF i > Len(params) THEN << >>
    ELSE (IF i > 1 THEN << "," >> ELSE << >>)
         \o StringifyValue(params[i]) \o StringifyElems(params, i + 1)

\* JSON.stringify of an array of values.
JSONStringify(params) == << "[" >> \o StringifyElems(params, 1) \o << "]" >>

\* The number of consecutive backslashes just before index k, from index i on.
BackslashRun(s, i, k) ==
    LET other == { j \in i..(k - 1) : s[j] # "\\" }
    IN  IF other = {} THEN k - i ELSE k - 1 - MaxOf(other)

\* The characters of a JSON string literal whose opening quote is before i:
\* [ok, val, next], next the index after the closing quote.  A backslash
\* escapes the character after it.
ParseString(s, i, acc) ==
    LET closing == { k \in i..Len(s) : s[k] = "\"" /\ BackslashRun(s, i, k) % 2 = 0 }
    IN  IF closing = {} THEN [ok |-> FALSE, val |-> acc, next |-> i]
        ELSE LET close == MinOf(closing)
                 escapes == { k \in i..(close - 1) :
                                s[k] = "\\" /\ BackslashRun(s, i, k) % 2 = 0 }
                 kept == (i..(close - 1)) \ escapes
                 text == IF escapes = {} THEN SubSeq(s, i, close - 1)
                         ELSE [ n \in 1..Cardinality(kept) |->
                                 s[CHOOSE k \in kept :
                                     Cardinality({ j \in kept : j <= k }) = n] ]
             IN  [ok |-> TRUE, val |-> acc \o text, next |-> close + 1]

\* The digits of a JSON number starting at i.
ParseNumber(s, i, acc) ==
    LET stop == { k \in i..Len(s) : s[k] \notin Digits }
        end == IF stop = {} THEN Len(s) + 1 ELSE MinOf(stop)
    IN  [ok |-> end > i, val |-> acc \o SubSeq(s, i, end - 1), next |-> end]

\* The elements of a JSON array from index i (after "[" or ","): [ok, val].
RECURSIVE ParseElems(_, _, _)
ParseElems(s, i, acc) ==
    IF i > Len(s) THEN [ok |-> FALSE, val |-> acc]
    ELSE LET e == IF s[i] = "\""
                  THEN LET r == ParseString(s, i + 1, << >>)
                       IN  [ok |-> r.ok, val |-> Str(r.val), next |-> r.next]
                  ELSE LET r == ParseNumber(s, i, << >>)
                       IN  [ok |-> r.ok, val |-> Num(r.val), next |-> r.next]
         IN  IF ~e.ok \/ e.next > Len(s) THEN [ok |-> FALSE, val |-> acc]
             ELSE IF s[e.next] = ","
                  THEN ParseElems(s, e.next + 1, Append(acc, e.val))
             ELSE IF s[e.next] = "]" /\ e.next = Len(s)
                  THEN [ok |-> TRUE, val |-> Append(acc, e.val)]
             ELSE [ok |-> FALSE, val |-> acc]

\* JSON.parse of the text of an array: [ok, val]; ok is FALSE where JSON.parse throws.
JSONParse(s) ==
    IF Len(s) < 2 \/ s[1] # "[" THEN [ok |-> FALSE, val |-> << >>]
    ELSE IF s = << "[", "]" >> THEN [ok |-> TRUE, val |-> << >>]
    ELSE ParseElems(s, 2, << >>)

(***************************************************************************)
(* The application's functions, values and updates                         *)
(***************************************************************************)

Users == { 1, 2 }

\* A function object: its name, its source text (fn.toString()), the closure
\* it was created in, what its body returns ("throw": it throws) and whether
\* its body first calls wait(ctx, itself).  greetTwin is a second closure of
\* greet's source: another function with the same name and text.
greet ==
    [name |-> << "g", "r", "e", "e", "t" >>, src |-> << "g" >>, env |-> 1,
     ret |-> "undefined", waits |-> FALSE]

greetTwin ==
    [name |-> << "g", "r", "e", "e", "t" >>, src |-> << "g" >>, env |-> 2,
     ret |-> "undefined", waits |-> FALSE]

echo ==
    [name |-> << "e", "c", "h", "o" >>, src |-> << "e" >>, env |-> 1,
     ret |-> "true", waits |-> FALSE]

check == [name |-> << >>, src |-> << "c" >>, env |-> 1, ret |-> "false", waits |-> FALSE]

\* again asks again: it calls wait(ctx, again) and returns.
again ==
    [name |-> << "a", "g", "a", "i", "n" >>, src |-> << "a" >>, env |-> 1,
     ret |-> "undefined", waits |-> TRUE]

\* bad throws.
bad ==
    [name |-> << "b", "a", "d" >>, src |-> << "b" >>, env |-> 1,
     ret |-> "throw", waits |-> FALSE]

\* redo calls wait(ctx, redo) and then throws.
redo ==
    [name |-> << "r", "e", "d", "o" >>, src |-> << "r" >>, env |-> 1,
     ret |-> "throw", waits |-> TRUE]

Handlers == { greet, greetTwin, echo, check, again, bad, redo }

\* Trees given to cbs, as the leaves the walk meets, in order, with their paths.
TreeFlat ==
    << [path |-> << "g", "r", "e", "e", "t" >>, fn |-> greet],
       [path |-> << "e", "c", "h", "o" >>, fn |-> echo] >>

TreeWait ==
    << [path |-> << "g", "r", "e", "e", "t" >>, fn |-> greet],
       [path |-> << "c", "h", "e", "c", "k" >>, fn |-> check] >>

TreeResume ==
    << [path |-> << "g", "r", "e", "e", "t" >>, fn |-> greet],
       [path |-> << "c", "h", "e", "c", "k" >>, fn |-> check],
       [path |-> << "a", "g", "a", "i", "n" >>, fn |-> again],
       [path |-> << "b", "a", "d" >>, fn |-> bad],
       [path |-> << "r", "e", "d", "o" >>, fn |-> redo] >>

TreeRace ==
    << [path |-> << "g", "r", "e", "e", "t" >>, fn |-> greet],
       [path |-> << "c", "h", "e", "c", "k" >>, fn |-> check],
       [path |-> << "a", "g", "a", "i", "n" >>, fn |-> again] >>

TreeNested ==
    << [path |-> << "a", ".", "g", "r", "e", "e", "t" >>, fn |-> greetTwin] >>

TreeTwin ==
    << [path |-> << "g", "r", "e", "e", "t" >>, fn |-> greetTwin] >>

Ann == Str(<< "A", "n", "n" >>)

Seven == Num(<< "7" >>)

Tricky == Str(<< ":", "\"" >>)

Long == Str([ i \in 1..50 |-> "a" ])

Cancel == << "/", "c", "a", "n", "c", "e", "l" >>

CancelUpper == << "/", "C", "A", "N", "C", "E", "L" >>

CancelWait == << "/", "c", "a", "n", "c", "e", "l", "w", "a", "i", "t" >>

Hello == << "h", "e", "l", "l", "o" >>

\* Bounds of the model: the partial applications kept alive, the arguments a
\* curried callback accumulates, the overflow tokens handed out.
MaxCurried == 2

MaxParams == 2

MaxIssued == 2

\* The Wait State objects of one run, the invocations of one target counted,
\* the resolutions of one user in flight at once.
MaxWaits == 3

MaxHits == 3

MaxParallel == 2

\* The contexts (updates through the context middleware) of one run.
MaxContexts == 3

\* The payload ceiling of a button's data field.
PayloadCeiling == 64

(***************************************************************************)
(* State                                                                   *)
(***************************************************************************)

VARIABLES
    callbackRegistry,   \* identifier -> function
    fnHash,             \* function -> << >> or << its .hash property >>
    curried,            \* the partial applications alive: [origin, params]
    applied,            \* history: the argument lists each of them was built from
    asked,              \* history: user -> the cancel keyword its last wait() was given
    session,            \* user -> [reply, params, wait, lastHash]
    issued,             \* the tokens storeCallbackData returned
    op,                 \* the last operation and its inputs
    calls,              \* the handler invocations of the last operation
    thrown,             \* the error the last operation raised, "none" if none
    deleted,            \* the message ids the last operation asked to delete
    flow,               \* how the last update went through the middleware chain
    contextCache,       \* user -> the context cached for it, 0 if none
    timers,             \* the eviction timers pending: [user, ctx]
    ctxSeq,             \* the number of contexts created so far
    forwarded,          \* << the payload the last API call forwarded >>, << >> if none
    waitObj,            \* user -> the Wait State object in its slot (0 if none), by number
    inflight,           \* the handleWaitResponse calls suspended at their await
    hits,               \* history: Wait State object -> its target and its invocations
    overlapped          \* history: the users two of whose resolutions were in flight at once

vars == << callbackRegistry, fnHash, curried, applied, asked, session, issued, op, calls, thrown,
           deleted, flow, contextCache, timers, ctxSeq, forwarded, waitObj, inflight, hits,
           overlapped >>

EmptyMap == [ x \in {} |-> << >> ]

Put(f, k, v) == [ x \in DOMAIN f \cup { k } |-> IF x = k THEN v ELSE f[x] ]

initialCallbackData == [reply |-> EmptyMap, params |-> EmptyMap, wait |-> << >>, lastHash |-> << >>]

NoFlow == [dispatched |-> FALSE, waitRan |-> FALSE, handled |-> FALSE, next |-> FALSE]

NoOp ==
    [kind |-> "init", user |-> 0, cur |-> 0, args |-> << >>,
     data |-> << >>, out |-> << >>, inp |-> << >>]

Init ==
    /\ callbackRegistry = EmptyMap
    /\ fnHash = [ f \in Handlers |-> << >> ]
    /\ curried = << >>
    /\ applied = << >>
    /\ asked = [ u \in Users |-> << >> ]
    /\ session = [ u \in Users |-> initialCallbackData ]
    /\ issued = {}
    /\ op = NoOp
    /\ calls = << >>
    /\ thrown = "none"
    /\ deleted = << >>
    /\ flow = NoFlow
    /\ contextCache = [ u \in Users |-> 0 ]
    /\ timers = {}
    /\ ctxSeq = 0
    /\ forwarded = << >>
    /\ waitObj = [ u \in Users |-> 0 ]
    /\ inflight = << >>
    /\ hits = << >>
    /\ overlapped = {}

(***************************************************************************)
(* Hasher                                                                  *)
(***************************************************************************)

calculateFunctionHash(fn) ==
    LET fnDigest == md5Hex(fn.src)
    IN  IF fn.name # << >>
        THEN Slice(fn.name, 0, 8) \o Slice(fnDigest, 0, Max(4, 12 - Len(fn.name)))
        ELSE SliceFrom(fnDigest, 12)

calculateFunctionHashWithPath(fn, path) ==
    LET name == IF path # << >> THEN path ELSE fn.name
        hash == md5Hex(name)
    IN  IF name # << >>
        THEN SliceLast(name, 12) \o Slice(hash, 0, Max(4, 16 - Len(fn.name)))
        ELSE Slice(hash, 0, 16)

(***************************************************************************)
(* Curry engine and token codec                                            *)
(***************************************************************************)

\* curried.params, read as a list (undefined reads as no arguments).
ParamsOf(c) == IF c.params = << >> THEN << >> ELSE c.params[1]

\* The root curried callback createCurried(parent) returns: params undefined.
createCurried(fn) == [origin |-> fn, params |-> << >>]

\* A faulty concat that puts the new arguments first.
ConcatParamsPrepend(c, args) == IF c.params # << >> THEN args \o c.params[1] ELSE args

\* The params of a call curried(...args): curried.params.concat(args), or args.
ConcatParams(c, args) == IF c.params # << >> THEN c.params[1] \o args ELSE args

\* A faulty partial application that also extends the curried callback it
\* was called on (params.push in the place of params.concat).
PartialHeapInPlace(heap, cur, src, args) ==
    LET ext == [origin |-> src.origin, params |-> << ConcatParams(src, args) >>]
    IN  Append(IF cur = 0 THEN heap ELSE [heap EXCEPT ![cur] = ext], ext)

\* The curried callbacks after curried[cur](...args) with no context: the call
\* makes a new one and leaves the one called as it is.  cur = 0 is a root.
PartialHeap(heap, cur, src, args) ==
    Append(heap, [origin |-> src.origin, params |-> << ConcatParams(src, args) >>])

toCallbackData(c, hashes) ==
    LET hash == hashes[c.origin][1]
    IN  IF ParamsOf(c) = << >>
        THEN << "_", "c", "b", ":" >> \o hash
        ELSE << "_", "c", "b", ":" >> \o hash \o << ":" >> \o JSONStringify(ParamsOf(c))

\* A faulty splitCallbackData that splits the remainder at its colons too and
\* keeps its first field.
splitCallbackDataAtColons(callbackData) ==
    LET parts == Split2(callbackData)
        prefix == parts[1]
    IN  IF prefix = << >> \/ Len(prefix) # 3 \/ prefix[1] # "_"
        THEN [ok |-> TRUE, prefix |-> << >>, hash |-> << >>, paramsJson |-> << >>]
        ELSE IF Len(parts) < 2
        THEN [ok |-> FALSE, prefix |-> prefix, hash |-> << >>, paramsJson |-> << >>]
        ELSE [ok |-> TRUE, prefix |-> prefix, hash |-> parts[2],
              paramsJson |-> Split2(SliceFrom(callbackData, Len(prefix) + Len(parts[2]) + 2))[1]]

\* splitCallbackData: [ok, prefix, hash, paramsJson]; ok is FALSE where the code
\* throws (hash.length of undefined, for a well-shaped prefix and no colon).
\* paramsJson << >> stands for undefined.
splitCallbackData(callbackData) ==
    LET parts == Split2(callbackData)
        prefix == parts[1]
    IN  IF prefix = << >> \/ Len(prefix) # 3 \/ prefix[1] # "_"
        THEN [ok |-> TRUE, prefix |-> << >>, hash |-> << >>, paramsJson |-> << >>]
        ELSE IF Len(parts) < 2
        THEN [ok |-> FALSE, prefix |-> prefix, hash |-> << >>, paramsJson |-> << >>]
        ELSE [ok |-> TRUE, prefix |-> prefix, hash |-> parts[2],
              paramsJson |-> SliceFrom(callbackData, Len(prefix) + Len(parts[2]) + 2)]

generateHash(params) == Slice(md5Hex(params), 0, 8)

\* What a handler invocation callback(ctx, ...args) does: the call and its result.
\* waited holds the function whose body called wait(ctx, itself), if it did.
Invoke(fn, u, args) ==
    [thrown |-> IF fn.ret = "throw" THEN "HandlerError" ELSE "none",
     calls |-> << [fn |-> fn, user |-> u, args |-> args] >>,
     ret |-> fn.ret,
     waited |-> IF fn.waits THEN << fn >> ELSE << >>]

Raised(err) == [thrown |-> err, calls |-> << >>, ret |-> "undefined", waited |-> << >>]

\* executeCallback(ctx, callbackData, ...args) for user u, given the registry
\* and the user's session data.
executeCallback(reg, sess, u, callbackData, args) ==
    LET sp == splitCallbackData(callbackData)
        isCh == sp.prefix = << "_", "c", "h" >>
    IN  IF ~sp.ok THEN Raised("TypeError")
        ELSE IF isCh /\ sp.hash \notin DOMAIN sess.params
        THEN Raised("SessionCallbackNotFound")
        ELSE LET hash == IF isCh THEN sess.params[sp.hash].hash ELSE sp.hash
                 paramsJson == IF isCh THEN sess.params[sp.hash].params ELSE sp.paramsJson
             IN  IF hash \notin DOMAIN reg THEN Raised("UnknownCallback")
                 ELSE LET parsed == IF paramsJson # << >> THEN JSONParse(paramsJson)
                                    ELSE [ok |-> TRUE, val |-> << >>]
                      IN  IF ~parsed.ok THEN Raised("SyntaxError")
                          ELSE Invoke(reg[hash], u, parsed.val \o args)

\* storeCallbackData(ctx, cbData): the session params table afterwards and the
\* token returned.
storeCallbackData(params, cbData) ==
    LET sp == splitCallbackData(cbData)
    IN  IF sp.paramsJson = << >>
        THEN [params |-> params, token |-> cbData]
        ELSE LET sessionHash == generateHash(sp.paramsJson)
             IN  [params |-> Put(params, sessionHash, [hash |-> sp.hash, params |-> sp.paramsJson]),
                  token |-> << "_", "c", "h", ":" >> \o sessionHash]

\* Button.cb(text, callback): the button's data field.
ButtonData(c, hashes) == toCallbackData(c, hashes)

(***************************************************************************)
(* Wait State                                                              *)
(***************************************************************************)

\* A faulty clearWaitState that forgets the anchor message.
clearWaitStateNoDelete(w) == [wait |-> << >>, deleted |-> << >>]

\* clearWaitState(ctx): the wait slot afterwards and the deletions asked for.
clearWaitState(w) ==
    [wait |-> << >>,
     deleted |-> IF w # << >> /\ w[1].messageId # 0 THEN << w[1].messageId >> ELSE << >>]

\* The stored cancel keyword: (waitOptions?.cancelKeyword || '/cancelwait').toLowerCase()
StoredKeyword(cancelKeyword) ==
    ToLowerCase(IF cancelKeyword # << >> THEN cancelKeyword ELSE CancelWait)

\* The Wait State wait() stores.  direct: the handler was passed in the place
\* of the filter, and the filter is ['message:text'].
NewWaitState(direct, filter, handlerId, opts) ==
    [messageId |-> opts.messageId,
     cancelKeyword |-> StoredKeyword(opts.cancelKeyword),
     filter |-> IF direct THEN << "message:text" >> ELSE filter,
     handlerId |-> handlerId,
     timeoutId |-> 0]

\* The wait slot after wait() has cleared it and stored the new state.
StoreWait(cleared, state) == << state >>

\* The options of a wait(ctx, handler) call that gives none.
NoOptions == [messageId |-> 0, cancelKeyword |-> << >>]

\* The Wait State the body of fn stores when it calls wait(ctx, fn).
HandlerWait(fn) ==
    NewWaitState(TRUE, << >>, toCallbackData(createCurried(fn), fnHash), NoOptions)

\* The wait slot w after a handler ran with outcome r: a body that called
\* wait() cleared the slot and stored its own state, a new object.
WaitAfter(w, r) ==
    IF r.waited = << >> THEN w
    ELSE StoreWait(clearWaitState(w).wait, HandlerWait(r.waited[1]))

\* The user's session data once a handler, if any, has run with outcome r.
SessAfter(sess, r) == [sess EXCEPT !.wait = WaitAfter(@, r)]

\* The deletions the handler's wait() call asked for.
DeletedBy(w, r) == IF r.waited = << >> THEN << >> ELSE clearWaitState(w).deleted

\* The history of cancel keywords after a handler ran for the user.
AskedAfter(a, r) == IF r.waited = << >> THEN a ELSE << >>

(***************************************************************************)
(* Registration, currying, execution                                       *)
(***************************************************************************)

Quiet ==
    /\ calls' = << >>
    /\ thrown' = "none"
    /\ deleted' = << >>
    /\ flow' = NoFlow

\* What an execution outside the middleware chain leaves behind for user u,
\* whose session data was sess: r is the outcome of the invocation.
Ran(u, sess, r) ==
    /\ session' = [session EXCEPT ![u] = SessAfter(sess, r)]
    /\ deleted' = DeletedBy(sess.wait, r)
    /\ asked' = [asked EXCEPT ![u] = AskedAfter(@, r)]
    /\ calls' = r.calls
    /\ thrown' = r.thrown
    /\ flow' = NoFlow

\* The registry after cb(callback) computed hash for fn.
RegisterCb(reg, hash, fn) == Put(reg, hash, fn)

\* cb(callback)
Cb(fn) ==
    LET hash == calculateFunctionHash(fn)
    IN  /\ callbackRegistry' = RegisterCb(callbackRegistry, hash, fn)
        /\ fnHash' = [fnHash EXCEPT ![fn] = << hash >>]
        /\ op' = [NoOp EXCEPT !.kind = "cb", !.data = hash, !.inp = fn]
        /\ Quiet
        /\ UNCHANGED << curried, applied, asked, session, issued, contextCache, timers, ctxSeq, forwarded,
                    waitObj, inflight, hits, overlapped >>

\* A faulty leaf that registers the function under the identifier cb() would
\* compute, and renders the path's identifier in tokens.
walkLeafOtherKey(w, leaf) ==
    LET hash == calculateFunctionHashWithPath(leaf.fn, leaf.path)
    IN  IF w.dup THEN w
        ELSE IF hash \in DOMAIN w.reg THEN [w EXCEPT !.dup = TRUE, !.hash = hash]
        ELSE [reg |-> Put(w.reg, calculateFunctionHash(leaf.fn), leaf.fn),
              hashes |-> [w.hashes EXCEPT ![leaf.fn] = << hash >>],
              dup |-> FALSE, hash |-> hash]

\* One leaf of the walk of cbs: the registry and the .hash properties so far;
\* dup is set where the walk throws.
walkLeaf(w, leaf) ==
    LET hash == calculateFunctionHashWithPath(leaf.fn, leaf.path)
    IN  IF w.dup THEN w
        ELSE IF hash \in DOMAIN w.reg THEN [w EXCEPT !.dup = TRUE, !.hash = hash]
        ELSE [reg |-> Put(w.reg, hash, leaf.fn),
              hashes |-> [w.hashes EXCEPT ![leaf.fn] = << hash >>],
              dup |-> FALSE, hash |-> hash]

RECURSIVE walk(_, _, _)
walk(w, tree, i) ==
    IF i > Len(tree) THEN w ELSE walk(walkLeaf(w, tree[i]), tree, i + 1)

\* cbs(callbacksObj)
Cbs(tree) ==
    LET w == walk([reg |-> callbackRegistry, hashes |-> fnHash,
                   dup |-> FALSE, hash |-> << >>], tree, 1)
    IN  /\ callbackRegistry' = w.reg
        /\ fnHash' = w.hashes
        /\ op' = [NoOp EXCEPT !.kind = "cbs", !.data = w.hash, !.inp = tree]
        /\ calls' = << >>
        /\ thrown' = IF w.dup THEN "DuplicateIdentifier" ELSE "none"
        /\ deleted' = << >>
        /\ flow' = NoFlow
        /\ UNCHANGED << curried, applied, asked, session, issued, contextCache, timers, ctxSeq, forwarded,
                    waitObj, inflight, hits, overlapped >>

\* The curried callbacks the application holds: the root of every registered
\* function (cur = 0) and the partial applications alive (cur = their index).
Held ==
    { [cur |-> 0, c |-> createCurried(fn)] : fn \in { f \in Handlers : fnHash[f] # << >> } }
        \cup { [cur |-> i, c |-> curried[i]] : i \in 1..Len(curried) }

\* curried(...args) with no context first: partial application.
Partial(h, args) ==
    /\ h \in Held
    /\ Len(curried) < MaxCurried
    /\ Len(ParamsOf(h.c)) + Len(args) <= MaxParams
    /\ curried' = PartialHeap(curried, h.cur, h.c, args)
    /\ applied' = Append(applied, (IF h.cur = 0 THEN << >> ELSE applied[h.cur]) \o << args >>)
    /\ op' = [NoOp EXCEPT !.kind = "partial", !.cur = h.cur, !.args = args, !.inp = h.c]
    /\ Quiet
    /\ UNCHANGED << callbackRegistry, fnHash, asked, session, issued, contextCache, timers, ctxSeq, forwarded,
                    waitObj, inflight, hits, overlapped >>

\* curried(ctx, ...args): immediate execution for user u.
Call(h, u, args) ==
    /\ h \in Held
    /\ Ran(u, [session[u] EXCEPT !.lastHash = fnHash[h.c.origin]],
           Invoke(h.c.origin, u, ConcatParams(h.c, args)))
    /\ op' = [NoOp EXCEPT !.kind = "call", !.user = u, !.cur = h.cur,
                          !.args = args, !.inp = h.c]
    /\ UNCHANGED << callbackRegistry, fnHash, curried, applied, issued, contextCache, timers, ctxSeq, forwarded,
                    waitObj, inflight, hits, overlapped >>

\* A button press reaching executeCallback(ctx, callbackData): the button was
\* made from a curried callback the application holds.
ExecuteCallback(u, h) ==
    /\ h \in Held
    /\ Ran(u, session[u],
           executeCallback(callbackRegistry, session[u], u,
                           toCallbackData(h.c, fnHash), << >>))
    /\ op' = [NoOp EXCEPT !.kind = "execute", !.user = u, !.cur = h.cur,
                          !.data = toCallbackData(h.c, fnHash), !.inp = h.c]
    /\ UNCHANGED << callbackRegistry, fnHash, curried, applied, issued, contextCache, timers, ctxSeq, forwarded,
                    waitObj, inflight, hits, overlapped >>

\* executeCallback(ctx, token) for a token storeCallbackData returned to u.
ExecuteIssued(u, i) ==
    /\ i \in issued
    /\ i.user = u
    /\ Ran(u, session[u],
           executeCallback(callbackRegistry, session[u], u, i.token, << >>))
    /\ op' = [NoOp EXCEPT !.kind = "executeIssued", !.user = u, !.data = i.token,
                          !.inp = i]
    /\ UNCHANGED << callbackRegistry, fnHash, curried, applied, issued, contextCache, timers, ctxSeq, forwarded,
                    waitObj, inflight, hits, overlapped >>

\* storeCallbackData(ctx, curried.toCallbackData())
StoreCallbackData(u, h) ==
    /\ h \in Held
    /\ LET cbData == toCallbackData(h.c, fnHash)
           r == storeCallbackData(session[u].params, cbData)
           rec == [user |-> u, token |-> r.token, direct |-> cbData]
       IN  /\ session' = [session EXCEPT ![u].params = r.params]
           /\ issued' = IF r.token # cbData /\ Cardinality(issued) < MaxIssued
                         THEN issued \cup { rec } ELSE issued
           /\ op' = [NoOp EXCEPT !.kind = "store", !.user = u, !.cur = h.cur,
                                 !.data = cbData, !.out = r.token, !.inp = h.c]
    /\ Quiet
    /\ UNCHANGED << callbackRegistry, fnHash, curried, applied, asked, contextCache, timers, ctxSeq, forwarded,
                    waitObj, inflight, hits, overlapped >>

\* Button.cb(text, curried) and curried.button(text), built while handling an
\* update of user u.
ButtonCb(u, h) ==
    /\ h \in Held
    /\ op' = [NoOp EXCEPT !.kind = "button", !.user = u, !.cur = h.cur,
                          !.data = toCallbackData(h.c, fnHash),
                          !.out = ButtonData(h.c, fnHash), !.inp = h.c]
    /\ Quiet
    /\ UNCHANGED << callbackRegistry, fnHash, curried, applied, asked, session, issued, contextCache, timers, ctxSeq, forwarded,
                    waitObj, inflight, hits, overlapped >>

(***************************************************************************)
(* Wait protocol and the middleware chain                                  *)
(***************************************************************************)

\* ctx.has(query) for one filter query, by the kind of the update.
Matches(upd, query) ==
    CASE query = "message:text" -> upd.kind = "text"
      [] query = "callback_query:data" -> upd.kind = "cbq"
      [] query = "message" -> upd.kind \in { "text", "photo" }
      [] query = "message:photo" -> upd.kind = "photo"
      [] OTHER -> FALSE

\* A faulty ctx.has that lets every update pass.
HasAnything(upd, queries) == TRUE

\* ctx.has(queries) for an array of filter queries.
Has(upd, queries) == \E i \in 1..Len(queries) : Matches(upd, queries[i])

\* wait(ctx, filter, handler, options) and wait(ctx, handler, options)
Wait(u, direct, filter, h, opts) ==
    /\ h \in Held
    /\ LET cleared == clearWaitState(session[u].wait)
           handlerId == toCallbackData(h.c, fnHash)
           state == NewWaitState(direct, filter, handlerId, opts)
       IN  /\ session' = [session EXCEPT ![u].wait = StoreWait(cleared.wait, state)]
           /\ deleted' = cleared.deleted
           /\ asked' = [asked EXCEPT ![u] = opts.cancelKeyword]
           /\ op' = [NoOp EXCEPT !.kind = "wait", !.user = u, !.cur = h.cur,
                                 !.data = handlerId,
                                 !.inp = [direct |-> direct, filter |-> filter,
                                          opts |-> opts, target |-> h.c]]
    /\ calls' = << >>
    /\ thrown' = "none"
    /\ flow' = NoFlow
    /\ UNCHANGED << callbackRegistry, fnHash, curried, applied, issued, contextCache, timers, ctxSeq, forwarded,
                    waitObj, inflight, hits, overlapped >>

\* clearWaitState(ctx), called by the application
ClearWaitState(u) ==
    /\ LET cleared == clearWaitState(session[u].wait)
       IN  /\ session' = [session EXCEPT ![u].wait = cleared.wait]
           /\ deleted' = cleared.deleted
    /\ op' = [NoOp EXCEPT !.kind = "clear", !.user = u]
    /\ calls' = << >>
    /\ thrown' = "none"
    /\ flow' = NoFlow
    /\ UNCHANGED << callbackRegistry, fnHash, curried, applied, asked, issued, contextCache, timers, ctxSeq, forwarded,
                    waitObj, inflight, hits, overlapped >>

\* The text of an update as handleWaitResponse reads it: message text,
\* callback-query data, or << >> for undefined.
TextOf(upd) == IF upd.kind \in { "text", "cbq" } THEN upd.text ELSE << >>

\* text && text.toLowerCase() === waitState.cancelKeyword
IsCancel(text, cancelKeyword) == text # << >> /\ ToLowerCase(text) = cancelKeyword

\* A faulty report that drops the Wait State of an update it does not handle.
NotHandledDrops(w) ==
    [handled |-> FALSE, wait |-> << >>, calls |-> << >>, deleted |-> << >>, rewaited |-> FALSE]

\* What handleWaitResponse reports: handled is its return value.
\* No wait state, or the update does not pass the filter.
NotHandled(w) ==
    [handled |-> FALSE, wait |-> w, calls |-> << >>, deleted |-> << >>, rewaited |-> FALSE]

\* The wait state is cleared and the update is handled.
Cleared(w, ran) ==
    [handled |-> TRUE, wait |-> clearWaitState(w).wait, calls |-> ran,
     deleted |-> clearWaitState(w).deleted, rewaited |-> FALSE]

\* A faulty identity test that compares the Wait States by content.
StillSameByContent(w, r) == WaitAfter(w, r) = w

\* getSessionData(ctx).wait === waitState: the slot holds the object read at
\* entry, that is, the handler's body stored no new one.
StillSame(w, r) == r.waited = << >>

\* The handler ran and the slot is left as the handler left it.
Left(w, r) ==
    [handled |-> TRUE, wait |-> WaitAfter(w, r), calls |-> r.calls,
     deleted |-> DeletedBy(w, r), rewaited |-> r.waited # << >>]

\* A faulty resolution that clears the Wait State whatever the handler returned.
AfterHandlerAlwaysClears(w, r) == Cleared(w, r.calls)

\* After the target handler: a handler that returned false leaves the slot;
\* a result or an error (which .catch turns into true) clears the Wait State
\* read at entry if it is still the one in the slot.
AfterHandler(w, r) ==
    IF r.thrown = "none" /\ r.ret = "false" THEN Left(w, r)
    ELSE IF StillSame(w, r) THEN Cleared(w, r.calls)
    ELSE Left(w, r)

\* The argument the target handler is given: the text, or undefined.
TextArg(text) == << IF text = << >> THEN Undefined ELSE Str(text) >>

\* handleWaitResponse(ctx)
handleWaitResponse(reg, sess, u, upd) ==
    IF sess.wait = << >> THEN NotHandled(sess.wait)
    ELSE IF IsCancel(TextOf(upd), sess.wait[1].cancelKeyword) THEN Cleared(sess.wait, << >>)
    ELSE IF ~Has(upd, sess.wait[1].filter) THEN NotHandled(sess.wait)
    ELSE AfterHandler(sess.wait,
                      executeCallback(reg, sess, u, sess.wait[1].handlerId,
                                      TextArg(TextOf(upd))))

\* isCallbackData(data)
isCallbackData(data) ==
    StartsWith(data, << "_", "c", "b", ":" >>) \/ StartsWith(data, << "_", "c", "h", ":" >>)

\* What a dispatcher did with r, the outcome of its executeCallback: handleText
\* stops the chain unless the handler returned false, the callback_query
\* handler stops it only on a truthy result.
Dispatched(r, truthyOnly) ==
    [ran |-> TRUE,
     consumed |-> r.thrown = "none"
                      /\ (IF truthyOnly THEN r.ret = "true" ELSE r.ret # "false"),
     r |-> r]

\* A faulty handleText that finds the reply table's entry whatever the case
\* of the text.
DispatchAnyCase(reg, sess, u, upd) ==
    IF upd.kind = "text" /\ upd.text # << >> /\ ToLowerCase(upd.text) \in DOMAIN sess.reply
    THEN Dispatched(executeCallback(reg, sess, u, sess.reply[ToLowerCase(upd.text)], << >>),
                    FALSE)
    ELSE IF upd.kind = "cbq" /\ isCallbackData(upd.text)
    THEN Dispatched(executeCallback(reg, sess, u, upd.text, << >>), TRUE)
    ELSE [ran |-> FALSE, consumed |-> FALSE, r |-> Raised("none")]

\* The dispatchers setupCallbacks installs: handleText on message:text and
\* the callback_query handler.
Dispatch(reg, sess, u, upd) ==
    IF upd.kind = "text" /\ upd.text # << >> /\ upd.text \in DOMAIN sess.reply
    THEN Dispatched(executeCallback(reg, sess, u, sess.reply[upd.text], << >>), FALSE)
    ELSE IF upd.kind = "cbq" /\ isCallbackData(upd.text)
    THEN Dispatched(executeCallback(reg, sess, u, upd.text, << >>), TRUE)
    ELSE [ran |-> FALSE, consumed |-> FALSE, r |-> Raised("none")]

\* The chain stops at the dispatcher: it consumed the update or it threw.
Stopped(d) == d.consumed \/ d.r.thrown # "none"

\* waitMiddleware, reached when the dispatcher passed the update on.
waitMiddleware(reg, sess, u, upd, d) ==
    IF Stopped(d) THEN NotHandled(sess.wait) ELSE handleWaitResponse(reg, sess, u, upd)

\* The state after the chain: d is what the dispatcher did, w what
\* waitMiddleware did.
Settle(u, upd, d, w) ==
    /\ session' = [session EXCEPT ![u].wait = w.wait]
    /\ asked' = [asked EXCEPT ![u] = IF w.rewaited THEN << >> ELSE AskedAfter(@, d.r)]
    /\ calls' = d.r.calls \o w.calls
    /\ thrown' = d.r.thrown
    /\ deleted' = DeletedBy(session[u].wait, d.r) \o w.deleted
    /\ flow' = [dispatched |-> d.r.calls # << >>, waitRan |-> ~Stopped(d),
                handled |-> w.handled, next |-> ~Stopped(d) /\ ~w.handled]
    /\ op' = [NoOp EXCEPT !.kind = "update", !.user = u, !.inp = upd]
    /\ UNCHANGED << callbackRegistry, fnHash, curried, applied, issued >>

\* The chain after the dispatcher.
AfterDispatch(u, upd, d) ==
    Settle(u, upd, d,
           waitMiddleware(callbackRegistry, SessAfter(session[u], d.r), u, upd, d))

\* One update of user u through the dispatchers of setupCallbacks(bot) and
\* then bot.use(waitMiddleware): the chain the context middleware calls as
\* next().
Chain(u, upd) == AfterDispatch(u, upd, Dispatch(callbackRegistry, session[u], u, upd))

\* The chain for one update of user u, the context cache left aside (Inbound
\* is the context middleware around the chain).
Update(u, upd) ==
    /\ Chain(u, upd)
    /\ UNCHANGED << contextCache, timers, ctxSeq, forwarded,
                    waitObj, inflight, hits, overlapped >>

\* The hook setupCallbacks installs on outgoing API calls, for a payload sent
\* to user u (whose context is cached) with one reply-keyboard button, text,
\* made from h: the button's token is recorded under its text.
ReplyHook(u, text, h) ==
    /\ h \in Held
    /\ session' = [session EXCEPT
                       ![u].reply = Put(session[u].reply, text, ButtonData(h.c, fnHash))]
    /\ op' = [NoOp EXCEPT !.kind = "reply", !.user = u, !.cur = h.cur,
                          !.data = text, !.inp = h.c]
    /\ Quiet
    /\ UNCHANGED << callbackRegistry, fnHash, curried, applied, asked, issued, contextCache, timers, ctxSeq, forwarded,
                    waitObj, inflight, hits, overlapped >>

\* The process restarts: the registry of the new process is empty and its
\* functions are new objects; the session store and what the platform holds
\* (buttons, reply keyboards) stay.
Restart ==
    /\ callbackRegistry' = EmptyMap
    /\ fnHash' = [ f \in Handlers |-> << >> ]
    /\ curried' = << >>
    /\ applied' = << >>
    /\ op' = [NoOp EXCEPT !.kind = "restart"]
    /\ Quiet
    /\ UNCHANGED << asked, session, issued, contextCache, timers, ctxSeq, forwarded,
                    waitObj, inflight, hits, overlapped >>

\* Time passes.  wait() stores timeoutId 0 and schedules nothing, so no
\* timer fires on a Wait State.
Elapse ==
    /\ op' = [NoOp EXCEPT !.kind = "elapse"]
    /\ Quiet
    /\ UNCHANGED << callbackRegistry, fnHash, curried, applied, asked, session, issued, contextCache, timers, ctxSeq, forwarded,
                    waitObj, inflight, hits, overlapped >>

\* The root curried callback cb or cbs returned for fn.
Root(fn) == [cur |-> 0, c |-> createCurried(fn)]

\* A button of user u made from h is pressed.
Press(u, h) ==
    /\ h \in Held
    /\ Update(u, [kind |-> "cbq", text |-> toCallbackData(h.c, fnHash)])

\* The curried callbacks an action may be given.
HeldChoices ==
    { [cur |-> 0, c |-> createCurried(fn)] : fn \in Handlers }
        \cup { [cur |-> i, c |-> curried[i]] : i \in 1..Len(curried) }

\* splitCallbackData(callbackData) applied to a string s.
Split(s) ==
    /\ op' = [NoOp EXCEPT !.kind = "split", !.data = s,
                          !.out = << splitCallbackData(s).prefix, splitCallbackData(s).hash,
                                     splitCallbackData(s).paramsJson >>]
    /\ calls' = << >>
    /\ thrown' = IF splitCallbackData(s).ok THEN "none" ELSE "TypeError"
    /\ deleted' = << >>
    /\ flow' = NoFlow
    /\ UNCHANGED << callbackRegistry, fnHash, curried, applied, asked, session, issued, contextCache, timers, ctxSeq, forwarded,
                    waitObj, inflight, hits, overlapped >>

\* executeCallback(ctx, s) called with a string s for user u.
ExecuteRaw(u, s) ==
    /\ Ran(u, session[u], executeCallback(callbackRegistry, session[u], u, s, << >>))
    /\ op' = [NoOp EXCEPT !.kind = "executeRaw", !.user = u, !.data = s]
    /\ UNCHANGED << callbackRegistry, fnHash, curried, applied, issued, contextCache, timers, ctxSeq, forwarded,
                    waitObj, inflight, hits, overlapped >>

(***************************************************************************)
(* Context cache and the hook on outgoing API calls                        *)
(***************************************************************************)

\* A chat that is not a private chat with a user: no context is ever cached
\* under its id.
GroupChat == 9

Chats == Users \cup { GroupChat }

\* contextCache[id], 0 if there is none.
Cached(cache, id) == IF id \in DOMAIN cache THEN cache[id] ELSE 0

\* The context middleware of setupCallbacks around the chain, for one update
\* of user u: the new context is cached under fromId, the chain runs as next(),
\* and the eviction timer is scheduled once next() has returned; when next()
\* throws the middleware is left before setTimeout.
Inbound(u, upd) ==
    /\ ctxSeq < MaxContexts
    /\ Chain(u, upd)
    /\ ctxSeq' = ctxSeq + 1
    /\ contextCache' = [contextCache EXCEPT ![u] = ctxSeq + 1]
    /\ timers' = IF thrown' = "none"
                   THEN timers \cup { [user |-> u, ctx |-> ctxSeq + 1] }
                   ELSE timers
    /\ forwarded' = << >>
    /\ UNCHANGED << waitObj, inflight, hits, overlapped >>

\* A faulty timer callback that deletes the slot whatever it holds.
sweepUnchecked(cache, u, ctx) == [cache EXCEPT ![u] = 0]

\* The timer callback: if (contextCache[fromId] === ctx) delete contextCache[fromId]
sweep(cache, u, ctx) == IF cache[u] = ctx THEN [cache EXCEPT ![u] = 0] ELSE cache

\* The eviction timer t fires.
Sweep(t) ==
    /\ t \in timers
    /\ contextCache' = sweep(contextCache, t.user, t.ctx)
    /\ timers' = timers \ { t }
    /\ op' = [NoOp EXCEPT !.kind = "sweep", !.user = t.user, !.inp = t]
    /\ Quiet
    /\ UNCHANGED << callbackRegistry, fnHash, curried, applied, asked, session, issued,
                    ctxSeq, forwarded,
                    waitObj, inflight, hits, overlapped >>

\* Button.cb(text, callback): the token in both fields.
ButtonCbFields(text, c, hashes) ==
    [text |-> text, callback_data |-> toCallbackData(c, hashes),
     _callback_data |-> toCallbackData(c, hashes)]

\* A reply-keyboard button that carries no token.
PlainButton(text) == [text |-> text, callback_data |-> << >>, _callback_data |-> << >>]

\* button._callback_data || button.callback_data
DataOf(button) ==
    IF button._callback_data # << >> THEN button._callback_data ELSE button.callback_data

\* A faulty forEach body that leaves the token fields on the button.
StrippedNot(button) == button

\* delete button._callback_data; delete button.callback_data, for a button
\* that carries a token.
Stripped(button) ==
    IF DataOf(button) # << >> THEN PlainButton(button.text) ELSE button

\* The reply table after buttons.forEach(...) from button i on.
RECURSIVE Recorded(_, _, _)
Recorded(reply, buttons, i) ==
    IF i > Len(buttons) THEN reply
    ELSE Recorded(IF DataOf(buttons[i]) # << >>
                      THEN Put(reply, buttons[i].text, DataOf(buttons[i]))
                      ELSE reply,
                  buttons, i + 1)

\* A faulty hook that takes the chat id for the user when no context is cached.
HookTargetAnyway(cache, chat) == IF chat \in Users THEN chat ELSE 0

\* The user whose session the hook writes for a payload to chat: the one of
\* the context cached under the chat id, 0 if there is none.
HookTarget(cache, chat) == IF Cached(cache, chat) # 0 THEN chat ELSE 0

\* The hook of bot.api.config.use for a payload to chat whose reply keyboard,
\* flattened, is buttons; the call was made by the handler of user by.
ApiCall(by, chat, buttons) ==
    /\ session' = IF HookTarget(contextCache, chat) # 0
                    THEN [session EXCEPT ![chat].reply = Recorded(@, buttons, 1)]
                    ELSE session
    /\ forwarded' = << [chat_id |-> chat,
                        keyboard |-> IF HookTarget(contextCache, chat) # 0
                                       THEN [ i \in 1..Len(buttons) |-> Stripped(buttons[i]) ]
                                       ELSE buttons] >>
    /\ op' = [NoOp EXCEPT !.kind = "api", !.user = by, !.data = chat, !.inp = buttons]
    /\ Quiet
    /\ UNCHANGED << callbackRegistry, fnHash, curried, applied, asked, issued,
                    contextCache, timers, ctxSeq,
                    waitObj, inflight, hits, overlapped >>

(***************************************************************************)
(* handleWaitResponse step by step: the host may run two updates of a user  *)
(* in parallel, and they interleave at the await of the target handler      *)
(***************************************************************************)

\* wait(ctx, h) by the host's code for user u: the slot holds a new object.
RaceWait(u, h) ==
    /\ h \in Held
    /\ Len(hits) < MaxWaits
    /\ session' = [session EXCEPT
                       ![u].wait = StoreWait(clearWaitState(@).wait,
                                             NewWaitState(TRUE, << >>,
                                                          toCallbackData(h.c, fnHash),
                                                          NoOptions))]
    /\ deleted' = clearWaitState(session[u].wait).deleted
    /\ asked' = [asked EXCEPT ![u] = << >>]
    /\ waitObj' = [waitObj EXCEPT ![u] = Len(hits) + 1]
    /\ hits' = Append(hits, [user |-> u, fn |-> h.c.origin, n |-> 0])
    /\ op' = [NoOp EXCEPT !.kind = "wait", !.user = u, !.cur = h.cur,
                          !.data = toCallbackData(h.c, fnHash),
                          !.inp = [direct |-> TRUE, filter |-> << >>, opts |-> NoOptions,
                                   target |-> h.c]]
    /\ calls' = << >>
    /\ thrown' = "none"
    /\ flow' = NoFlow
    /\ UNCHANGED << callbackRegistry, fnHash, curried, applied, issued,
                    contextCache, timers, ctxSeq, forwarded, inflight, overlapped >>

\* handleWaitResponse up to its await, with r the outcome the invocation
\* started there will have: the Wait State object read is remembered.
Started(u, upd, r) ==
    /\ inflight' = Append(inflight, [user |-> u, read |-> waitObj[u], upd |-> upd, r |-> r])
    /\ hits' = IF r.calls # << >> THEN [hits EXCEPT ![waitObj[u]].n = @ + 1] ELSE hits
    /\ overlapped' = IF \E i \in 1..Len(inflight) : inflight[i].user = u
                       THEN overlapped \cup { u } ELSE overlapped
    /\ calls' = r.calls
    /\ thrown' = "none"
    /\ deleted' = << >>
    /\ flow' = NoFlow
    /\ op' = [NoOp EXCEPT !.kind = "begin", !.user = u, !.inp = upd]
    /\ UNCHANGED << callbackRegistry, fnHash, curried, applied, asked, session, issued,
                    contextCache, timers, ctxSeq, forwarded, waitObj >>

\* An update of user u reaches handleWaitResponse, finds a Wait State it does
\* not cancel and whose filter it passes, and the target handler is invoked.
Begin(u, upd) ==
    /\ session[u].wait # << >>
    /\ waitObj[u] # 0
    /\ hits[waitObj[u]].n < MaxHits
    /\ Cardinality({ i \in 1..Len(inflight) : inflight[i].user = u }) < MaxParallel
    /\ ~IsCancel(TextOf(upd), session[u].wait[1].cancelKeyword)
    /\ Has(upd, session[u].wait[1].filter)
    /\ Started(u, upd,
               executeCallback(callbackRegistry, session[u], u, session[u].wait[1].handlerId,
                               TextArg(TextOf(upd))))

\* A faulty end of handleWaitResponse that never clears the slot.
clearIfSameNever(wait, obj, read, keep) == [wait |-> wait, obj |-> obj]

\* The end of handleWaitResponse for the slot (wait, obj) the handler left:
\* keep, the handler returned false; otherwise the slot is cleared if it
\* holds the object read at entry.
clearIfSame(wait, obj, read, keep) ==
    IF ~keep /\ obj = read THEN [wait |-> << >>, obj |-> 0] ELSE [wait |-> wait, obj |-> obj]

\* The suspended call f of handleWaitResponse goes on, given the slot (wait,
\* obj) its handler's body left.
Finished(f, wait, obj) ==
    /\ session' = [session EXCEPT
                       ![f.user].wait =
                           clearIfSame(wait, obj, f.read,
                                       f.r.thrown = "none" /\ f.r.ret = "false").wait]
    /\ waitObj' = [waitObj EXCEPT
                       ![f.user] =
                           clearIfSame(wait, obj, f.read,
                                       f.r.thrown = "none" /\ f.r.ret = "false").obj]
    /\ hits' = IF f.r.waited # << >>
                 THEN Append(hits, [user |-> f.user, fn |-> f.r.waited[1], n |-> 0])
                 ELSE hits
    /\ asked' = [asked EXCEPT ![f.user] = AskedAfter(@, f.r)]
    /\ op' = [NoOp EXCEPT !.kind = "end", !.user = f.user, !.inp = f]
    /\ Quiet
    /\ UNCHANGED << callbackRegistry, fnHash, curried, applied, issued,
                    contextCache, timers, ctxSeq, forwarded, overlapped >>

\* The handler of the i-th suspended call returns (after the wait() of its
\* body, if it makes one) and handleWaitResponse runs to its end.
End(i) ==
    /\ i \in 1..Len(inflight)
    /\ inflight[i].r.waited # << >> => Len(hits) < MaxWaits
    /\ inflight' = [ j \in 1..(Len(inflight) - 1) |->
                       IF j < i THEN inflight[j] ELSE inflight[j + 1] ]
    /\ Finished(inflight[i],
                WaitAfter(session[inflight[i].user].wait, inflight[i].r),
                IF inflight[i].r.waited # << >> THEN Len(hits) + 1
                ELSE waitObj[inflight[i].user])

\* The promise ctx.deleteMessages([messageId]) returned settles.  clearWaitState
\* neither awaits it nor attaches a handler to it: when the deletion fails the
\* rejection has no handler and is reported to the process as an unhandled
\* rejection.
DeleteSettled(ok) ==
    /\ deleted # << >>
    /\ op' = [NoOp EXCEPT !.kind = "deleteSettled", !.data = deleted, !.inp = ok]
    /\ calls' = << >>
    /\ thrown' = IF ok THEN "none" ELSE "UnhandledRejection"
    /\ deleted' = << >>
    /\ flow' = NoFlow
    /\ UNCHANGED << callbackRegistry, fnHash, curried, applied, asked, session, issued, contextCache, timers, ctxSeq, forwarded,
                    waitObj, inflight, hits, overlapped >>

\* An update whose context has no from id (a channel post, a poll, a message
\* without a sender) through the chain.  The context middleware returns
\* next() before it caches the context or sets ctx._getSessionData.  For a
\* message with text handleText then evaluates getSessionData(ctx).reply[text];
\* for any other update the dispatchers pass it on and waitMiddleware
\* evaluates getSessionData(ctx).wait.  getSessionData(ctx) calls
\* ctx._getSessionData, which is undefined on this context: a TypeError, in
\* handleText for a text message (waitMiddleware is not reached) and in
\* handleWaitResponse otherwise.
Anonymous(upd) ==
    /\ op' = [NoOp EXCEPT !.kind = "anonymous", !.inp = upd]
    /\ calls' = << >>
    /\ thrown' = "TypeError"
    /\ deleted' = << >>
    /\ flow' = [dispatched |-> FALSE,
                waitRan |-> ~(upd.kind = "text" /\ upd.text # << >>),
                handled |-> FALSE, next |-> FALSE]
    /\ UNCHANGED << callbackRegistry, fnHash, curried, applied, asked, session, issued, contextCache, timers, ctxSeq, forwarded,
                    waitObj, inflight, hits, overlapped >>

(***************************************************************************)
(* Specifications                                                          *)
(***************************************************************************)

\* Registration and token round trip.
CoreArgs == { << Ann, Seven >>, << Tricky >> }

Next ==
    \/ \E fn \in { greet, greetTwin } : Cb(fn)
    \/ \E tree \in { TreeFlat, TreeTwin } : Cbs(tree)
    \/ \E fn \in Handlers, args \in CoreArgs : Partial(Root(fn), args)
    \/ \E h \in HeldChoices : ExecuteCallback(1, h)

Spec == Init /\ [][Next]_vars

\* The curry engine.
CurryArgs == { << >>, << Ann >>, << Seven >>, << Ann, Seven >> }

NextCurry ==
    \/ Cb(greet)
    \/ \E h \in HeldChoices, args \in CurryArgs : Partial(h, args)
    \/ \E h \in HeldChoices, u \in Users, args \in CurryArgs : Call(h, u, args)
    \/ \E h \in HeldChoices : ExecuteCallback(1, h)

SpecCurry == Init /\ [][NextCurry]_vars

\* Buttons and the session overflow table.
NextOverflow ==
    \/ Cbs(TreeFlat)
    \/ \E fn \in Handlers, args \in { << Long >>, << Seven >> } : Partial(Root(fn), args)
    \/ \E h \in HeldChoices : ButtonCb(1, h)
    \/ \E h \in HeldChoices : StoreCallbackData(1, h)
    \/ \E i \in issued : ExecuteIssued(1, i)
    \/ \E h \in HeldChoices : ExecuteCallback(1, h)

SpecOverflow == Init /\ [][NextOverflow]_vars

\* The wait protocol.
WaitFilters ==
    { << "callback_query:data" >>, << "message:text", "callback_query:data" >> }

WaitOptions ==
    { [messageId |-> 0, cancelKeyword |-> << >>],
      [messageId |-> 5, cancelKeyword |-> Cancel],
      [messageId |-> 5, cancelKeyword |-> CancelUpper] }

WaitUpdates ==
    { [kind |-> "text", text |-> t] : t \in { Cancel, CancelUpper, CancelWait, Hello } }
        \cup { [kind |-> "cbq", text |-> t] : t \in { CancelUpper, Hello } }
        \cup { [kind |-> "photo", text |-> << >>] }

NextWait ==
    \/ Cbs(TreeWait)
    \/ \E u \in Users, h \in HeldChoices, opts \in WaitOptions :
          Wait(u, TRUE, << >>, h, opts)
    \/ \E u \in Users, f \in WaitFilters, h \in HeldChoices :
          Wait(u, FALSE, f, h, [messageId |-> 0, cancelKeyword |-> << >>])
    \/ \E u \in Users : ClearWaitState(u)
    \/ \E u \in Users, upd \in WaitUpdates : Update(u, upd)
    \/ \E u \in Users, h \in HeldChoices : Press(u, h)
    \/ \E h \in HeldChoices : ReplyHook(1, Cancel, h)

SpecWait == Init /\ [][NextWait]_vars

\* Resuming a wait: handlers that return false, wait again or throw, tokens
\* that outlive a restart.
ResumeOptions ==
    { [messageId |-> 0, cancelKeyword |-> << >>, timeoutMs |-> 0],
      [messageId |-> 5, cancelKeyword |-> Cancel, timeoutMs |-> 1] }

\* The token storeCallbackData handed out for the arguments [7], on a button
\* that outlived its entry of the session params table.
EvictedToken == << "_", "c", "h", ":" >> \o generateHash(<< "[", "7", "]" >>)

ResumeUpdates ==
    { [kind |-> "text", text |-> t] : t \in { Cancel, Hello } }
        \cup { [kind |-> "photo", text |-> << >>] }
        \cup { [kind |-> "cbq", text |-> EvictedToken] }

NextResume ==
    \/ Cbs(TreeResume)
    \/ Restart
    \/ Elapse
    \/ Partial(Root(greet), << Ann >>)
    \/ \E h \in HeldChoices, opts \in ResumeOptions : Wait(1, TRUE, << >>, h, opts)
    \/ \E h \in HeldChoices :
          Wait(1, FALSE, << "callback_query:data" >>, h,
               [messageId |-> 0, cancelKeyword |-> << >>, timeoutMs |-> 1])
    \/ ClearWaitState(1)
    \/ \E upd \in ResumeUpdates : Update(1, upd)
    \/ \E h \in HeldChoices : Press(1, h)
    \/ \E h \in HeldChoices : ReplyHook(1, Hello, h)

SpecResume == Init /\ [][NextResume]_vars

\* Strings that are not tokens.
RawTokens ==
    { << >>,
      << "_", "c", "b" >>,
      << "_", "c", "h" >>,
      << ":" >>,
      << "c", "b", ":", "a" >>,
      << "_", "c", ":", "a" >>,
      << "_", "c", "b", "b", ":", "a" >>,
      << "a", "c", "b", ":", "a" >>,
      Hello,
      Cancel }

NextTokens ==
    \/ Cbs(TreeFlat)
    \/ \E s \in RawTokens : Split(s)
    \/ \E u \in Users, s \in RawTokens : ExecuteRaw(u, s)
    \/ \E u \in Users, k \in { "cbq", "text" }, s \in RawTokens :
          Update(u, [kind |-> k, text |-> s])

SpecTokens == Init /\ [][NextTokens]_vars

\* The context cache and the reply-keyboard hook.
CacheUpdates ==
    { [kind |-> "text", text |-> Hello], [kind |-> "cbq", text |-> EvictedToken] }

\* The reply keyboards the handlers send: buttons with and without a token,
\* two buttons of the same text.
Keyboards ==
    { << ButtonCbFields(Hello, createCurried(greet), fnHash) >>,
      << PlainButton(Cancel), ButtonCbFields(Hello, createCurried(echo), fnHash) >>,
      << ButtonCbFields(Hello, createCurried(echo), fnHash),
         ButtonCbFields(Hello, createCurried(greet), fnHash) >> }

NextCache ==
    \/ Cbs(TreeFlat)
    \/ \E u \in Users, upd \in CacheUpdates : Inbound(u, upd)
    \/ \E t \in timers : Sweep(t)
    \/ \E chat \in Chats :
          /\ fnHash[greet] # << >>
          /\ \E buttons \in Keyboards : ApiCall(1, chat, buttons)

SpecCache == Init /\ [][NextCache]_vars

\* The timers of setTimeout fire.
SpecCacheLive == SpecCache /\ WF_vars(\E t \in timers : Sweep(t))

\* Two updates of one user in parallel.
NextRace ==
    \/ Cbs(TreeRace)
    \/ \E h \in HeldChoices : RaceWait(1, h)
    \/ Begin(1, [kind |-> "text", text |-> Hello])
    \/ \E i \in 1..MaxParallel : End(i)

SpecRace == Init /\ [][NextRace]_vars

\* Tokens given by their parts: a three-character scheme tag that starts with
\* an underscore, a key without a colon, and a remainder that may hold colons.
\* bare is the form <scheme>:<key>, without the second colon.
Schemes == { << "_", "c", "b" >>, << "_", "c", "h" >>, << "_", "z", "z" >> }

SplitKeys == { << >>, << "a" >>, << "a", "b" >> }

SplitRests ==
    { << >>,
      << ":" >>,
      << "[", "1", "]" >>,
      << "a", ":", "b" >>,
      << "[", "\"", ":", "\"", "]" >>,
      << ":", "a", ":" >> }

SplitParts ==
    { [scheme |-> s, key |-> k, rest |-> r, bare |-> b] :
        s \in Schemes, k \in SplitKeys, r \in SplitRests, b \in BOOLEAN }

Compose(p) ==
    IF p.bare THEN p.scheme \o << ":" >> \o p.key
    ELSE p.scheme \o << ":" >> \o p.key \o << ":" >> \o p.rest

FormedParts == { p \in SplitParts : p.bare => p.rest = << >> }

\* The tokens of every scheme tag that name an identifier of the registry, or
\* one that is not there.
SchemeTokens(reg) ==
    { s \o << ":" >> \o k : s \in Schemes, k \in DOMAIN reg \cup { << "a" >> } }

NextSplit ==
    \/ Cbs(TreeFlat)
    \/ \E p \in FormedParts : Split(Compose(p))
    \/ \E u \in Users, s \in SchemeTokens(callbackRegistry) : ExecuteRaw(u, s)

SpecSplit == Init /\ [][NextSplit]_vars

\* Registration by both entry points: named and anonymous functions, a twin
\* of a registered function, flat and nested trees, and the curried callbacks
\* obtained from them.
IdChoices ==
    { Root(greet), Root(check) } \cup { [cur |-> i, c |-> curried[i]] : i \in 1..Len(curried) }

NextIds ==
    \/ \E fn \in { greet, greetTwin, check } : Cb(fn)
    \/ \E tree \in { TreeFlat, TreeNested } : Cbs(tree)
    \/ \E h \in IdChoices : Partial(h, << Seven >>)
    \/ \E h \in IdChoices : ExecuteCallback(1, h)

SpecIds == Init /\ [][NextIds]_vars

\* Wait States with and without an anchor message, cleared in every way, and
\* the deletions asked for settling.
NextAnchor ==
    \/ Cbs(TreeWait)
    \/ \E u \in Users, h \in { Root(greet), Root(check) }, opts \in WaitOptions :
          Wait(u, TRUE, << >>, h, opts)
    \/ \E u \in Users : ClearWaitState(u)
    \/ \E u \in Users, t \in { Cancel, Hello } : Update(u, [kind |-> "text", text |-> t])
    \/ \E ok \in BOOLEAN : DeleteSettled(ok)

SpecAnchor == Init /\ [][NextAnchor]_vars

\* Updates of users and updates without a sender, through the context
\* middleware.
AnonUpdates ==
    { [kind |-> "text", text |-> Hello],
      [kind |-> "post", text |-> Hello],
      [kind |-> "poll", text |-> << >>] }

NextAnon ==
    \/ Cbs(TreeFlat)
    \/ \E u \in Users, upd \in CacheUpdates : Inbound(u, upd)
    \/ \E t \in timers : Sweep(t)
    \/ \E upd \in AnonUpdates : Anonymous(upd)

SpecAnon == Init /\ [][NextAnon]_vars

(***************************************************************************)
(* Properties                                                              *)
(***************************************************************************)

\* The invocation a handler sees when fn is called for user u with args.
Seen(fn, u, args) == << [fn |-> fn, user |-> u, args |-> args] >>

ChPrefix == << "_", "c", "h", ":" >>

\* C1 (round trip): pressing a button whose token toCallbackData() rendered
\* from the curried callback h(A) invokes exactly h, once, with (ctx, A...).
RoundTrip ==
    op.kind = "execute" =>
        thrown = "none" /\ calls = Seen(op.inp.origin, op.user, ParamsOf(op.inp))

\* The concatenation of the argument lists of a chain of partial applications.
RECURSIVE Flatten(_)
Flatten(parts) == IF parts = << >> THEN << >> ELSE parts[1] \o Flatten(Tail(parts))

\* The argument lists the curried callback of the last operation was built from.
AppliedTo == IF op.cur = 0 THEN << >> ELSE applied[op.cur]

\* What the handler sees on the direct call f(ctx, A...) of the root f of fn.
DirectCall(fn, u, A) == Invoke(fn, u, ConcatParams(createCurried(fn), A)).calls

\* C2 (currying associativity): a call f(A1)...(Ak)(ctx, B...) through any chain
\* of partial applications gives the handler the same argument list as the
\* direct call f(ctx, A1 ++ ... ++ Ak ++ B).
Associativity ==
    op.kind = "call" =>
        calls = DirectCall(op.inp.origin, op.user, Flatten(AppliedTo) \o op.args)

\* C2: f(a)(b)(ctx, c), two partial applications and then the call, all with
\* arguments.
AssociativityWitness ==
    /\ op.kind = "call"
    /\ op.cur > 0
    /\ op.args # << >>
    /\ Len(AppliedTo) = 2
    /\ AppliedTo[1] # << >>
    /\ AppliedTo[2] # << >>
    /\ calls # << >>

\* C3 (partial application is persistent): no operation changes a curried
\* callback that exists, nor the token it renders; a partial application adds
\* a new one.
Persistent ==
    [][ /\ \A i \in 1..Len(curried) :
              /\ i <= Len(curried')
              /\ curried'[i] = curried[i]
              /\ toCallbackData(curried'[i], fnHash') = toCallbackData(curried[i], fnHash)
        /\ op'.kind = "partial" => Len(curried') = Len(curried) + 1 ]_vars

\* C3: a partial application was made from a partial application, with
\* arguments, and the one it was made from is still there.
PersistentWitness ==
    /\ op.kind = "partial"
    /\ op.cur > 0
    /\ op.args # << >>
    /\ curried[op.cur] = op.inp
    /\ Len(curried) > op.cur

\* The leaves of a tree whose identifier the registry binds already.
Bound(tree) ==
    { i \in 1..Len(tree) :
        calculateFunctionHashWithPath(tree[i].fn, tree[i].path) \in DOMAIN callbackRegistry }

BoundTo(tree, i) == callbackRegistry[calculateFunctionHashWithPath(tree[i].fn, tree[i].path)]

\* C4 (duplicate identifier): cb or cbs of a handler whose identifier is bound
\* to a different handler fails with a duplicate-identifier error and leaves
\* the bindings as they were.
DuplicateFails ==
    [][ ( \/ /\ op'.kind = "cb"
             /\ op'.data \in DOMAIN callbackRegistry
             /\ callbackRegistry[op'.data] # op'.inp
          \/ /\ op'.kind = "cbs"
             /\ \E i \in Bound(op'.inp) : BoundTo(op'.inp, i) # op'.inp[i].fn )
        => /\ thrown' = "DuplicateIdentifier"
           /\ \A k \in DOMAIN callbackRegistry :
                 k \in DOMAIN callbackRegistry' /\ callbackRegistry'[k] = callbackRegistry[k]
      ]_vars

\* C5 (idempotent re-registration): cb of a handler, or cbs of a tree, that is
\* registered already under the same identifiers raises no error and leaves
\* the identifiers bound to the same handlers.
ReRegisterIdempotent ==
    [][ ( \/ /\ op'.kind = "cb"
             /\ op'.data \in DOMAIN callbackRegistry
             /\ callbackRegistry[op'.data] = op'.inp
          \/ /\ op'.kind = "cbs"
             /\ Bound(op'.inp) = 1..Len(op'.inp)
             /\ \A i \in Bound(op'.inp) : BoundTo(op'.inp, i) = op'.inp[i].fn )
        => /\ thrown' = "none"
           /\ callbackRegistry' = callbackRegistry
      ]_vars

\* C6 (automatic overflow): a button built from a curried callback whose
\* direct token is longer than the ceiling carries a _ch: token, and pressing
\* it invokes the handler with the original arguments.
AutomaticOverflow ==
    (op.kind = "button" /\ Len(op.data) > PayloadCeiling) =>
        /\ StartsWith(op.out, ChPrefix)
        /\ executeCallback(callbackRegistry, session[op.user], op.user, op.out, << >>).calls
               = Seen(op.inp.origin, op.user, ParamsOf(op.inp))

\* What executeCallback does for user u with token: the error and the calls.
Outcome(u, token) ==
    LET r == executeCallback(callbackRegistry, session[u], u, token, << >>)
    IN  << r.thrown, r.calls >>

\* C7 (overflow correctness): the token storeCallbackData returned for a direct
\* token resolves to the same handler and arguments as the direct token, also
\* when another stored token shares its entry.
OverflowFaithful == \A i \in issued : Outcome(i.user, i.token) = Outcome(i.user, i.direct)

\* C8 (session params are immutable once written): an entry of a user's params
\* table keeps its identifier and its arguments.
ParamsImmutable ==
    [][ \A u \in Users : \A k \in DOMAIN session[u].params :
            /\ k \in DOMAIN session'[u].params
            /\ session'[u].params[k] = session[u].params[k] ]_vars

\* The elements of a sequence.
Range(seq) == { seq[i] : i \in 1..Len(seq) }

\* C9 (wait single-pendency): a user has at most one Wait State; wait() leaves
\* exactly the new one, and asks to delete the anchor message of the one it
\* replaced when that had a non-zero messageId.
SinglePendency ==
    /\ [](\A u \in Users : Len(session[u].wait) <= 1)
    /\ [][ op'.kind = "wait" =>
             /\ Len(session'[op'.user].wait) = 1
             /\ session'[op'.user].wait[1].handlerId = op'.data
             /\ session'[op'.user].wait[1].messageId = op'.inp.opts.messageId
             /\ (session[op'.user].wait # << >> /\ session[op'.user].wait[1].messageId # 0)
                   => session[op'.user].wait[1].messageId \in Range(deleted') ]_vars

\* C9: a second wait() replaced a Wait State with an anchor message.
SinglePendencyWitness ==
    /\ op.kind = "wait"
    /\ deleted # << >>
    /\ Len(session[op.user].wait) = 1

\* The cancel keyword wait() was given for user u, or its default.
KeywordOf(u) == IF asked[u] # << >> THEN asked[u] ELSE CancelWait

\* C10 (wait cancel): while a user has a Wait State, an update whose text is
\* the cancel keyword, whatever the case of either, clears the Wait State,
\* invokes no handler and is handled (next is not called), whatever the filter.
\* The update goes through the documented chain, dispatchers first.
WaitCancel ==
    [][ ( /\ op'.kind = "update"
          /\ session[op'.user].wait # << >>
          /\ TextOf(op'.inp) # << >>
          /\ ToLowerCase(TextOf(op'.inp)) = ToLowerCase(KeywordOf(op'.user)) )
        => /\ session'[op'.user].wait = << >>
           /\ calls' = << >>
           /\ flow'.handled
           /\ ~flow'.next ]_vars

\* C11 (default cancel keyword): after a wait() that was given no cancel
\* keyword the stored keyword is /cancel, and a text /cancel in any case clears
\* the Wait State and invokes no handler.
DefaultCancelKeyword ==
    [][ ( /\ op'.kind = "update"
          /\ session[op'.user].wait # << >>
          /\ asked[op'.user] = << >>
          /\ TextOf(op'.inp) # << >>
          /\ ToLowerCase(TextOf(op'.inp)) = Cancel )
        => /\ session[op'.user].wait[1].cancelKeyword = Cancel
           /\ session'[op'.user].wait = << >>
           /\ calls' = << >> ]_vars

\* The calls of an update that the wait resolution made (the dispatcher's
\* call, if it made one, comes first).
WaitCalls(c, f) == IF f.dispatched THEN Tail(c) ELSE c

\* The Wait State handleWaitResponse read, given the slot w before the update:
\* the dispatcher's handler may have stored one of its own first.
SeenWait(w, c, f) ==
    IF f.dispatched /\ c[1].fn.waits THEN << HandlerWait(c[1].fn) >> ELSE w

\* The update upd reached handleWaitResponse, which found a Wait State that
\* upd does not cancel and whose filter upd passes: the wait is resolved.
Resolves(w, upd, c, f) ==
    /\ f.waitRan
    /\ SeenWait(w, c, f) # << >>
    /\ ~IsCancel(TextOf(upd), SeenWait(w, c, f)[1].cancelKeyword)
    /\ Has(upd, SeenWait(w, c, f)[1].filter)

\* The step is an update that resolves the user's wait.
Resolution ==
    /\ op'.kind = "update"
    /\ Resolves(session[op'.user].wait, op'.inp, calls', flow')

\* The step is a resolution that invoked the target handler.
Resumed == Resolution /\ WaitCalls(calls', flow') # << >>

\* The target handler the resolution invoked.
Target == WaitCalls(calls', flow')[1].fn

RePauseKept ==
    [][ (Resumed /\ Target.waits /\ Target.ret \in { "undefined", "true" }) =>
          /\ session'[op'.user].wait = << HandlerWait(Target) >>
          /\ flow'.handled ]_vars

\* C13: again was resumed by a text from a wait(ctx, again) with no options
\* (no anchor was deleted), and its new Wait State, equal to that one, is there.
RePauseWitness ==
    /\ op.kind = "update"
    /\ op.inp.kind = "text"
    /\ ~flow.dispatched
    /\ flow.handled
    /\ calls # << >>
    /\ calls[1].fn = again
    /\ deleted = << >>
    /\ session[op.user].wait = << HandlerWait(again) >>

\* C14 (fail-safe on error): when the invocation of the target handler raises,
\* in its body or because the handlerId is not in the registry, the user has no
\* Wait State afterwards and the update is handled.
FailSafe ==
    [][ ( /\ Resolution
          /\ \/ WaitCalls(calls', flow') = << >>
             \/ Target.ret = "throw" )
        => /\ session'[op'.user].wait = << >>
           /\ flow'.handled ]_vars

WaitResolution ==
    [][ ( /\ op.kind = "wait"
          /\ op'.kind = "update"
          /\ op'.user = op.user
          /\ session[op.user].wait # << >>
          /\ ~IsCancel(TextOf(op'.inp), session[op.user].wait[1].cancelKeyword)
          /\ Has(op'.inp, IF op.inp.direct THEN << "message:text" >> ELSE op.inp.filter) )
        => /\ Cardinality({ i \in 1..Len(calls') :
                              calls'[i].fn = op.inp.target.origin }) = 1
           /\ \A i \in 1..Len(calls') :
                  calls'[i].fn = op.inp.target.origin
                      => calls'[i].args
                             = op.inp.target.params \o TextArg(TextOf(op'.inp))
           /\ ( op.inp.target.origin.ret \in { "undefined", "true" }
                /\ ~op.inp.target.origin.waits )
                  => session'[op.user].wait = << >> ]_vars

\* Some handler invoked in the step called wait() in its body.
WaitCalled == \E i \in 1..Len(calls') : calls'[i].fn.waits

\* The step is an update of user u that reached the wait protocol and matched
\* the cancel keyword of the Wait State it read.
CancelMatch(u) ==
    /\ op'.kind = "update"
    /\ op'.user = u
    /\ flow'.waitRan
    /\ SeenWait(session[u].wait, calls', flow') # << >>
    /\ IsCancel(TextOf(op'.inp), SeenWait(session[u].wait, calls', flow')[1].cancelKeyword)

\* The step is an update of user u that resolved the wait, and the target
\* handler did not return false (it returned something else, or the
\* invocation raised).
ResolvedNotFalse(u) ==
    /\ Resolution
    /\ op'.user = u
    /\ \/ WaitCalls(calls', flow') = << >>
       \/ Target.ret # "false"

NeverSwallowed ==
    ( /\ op.kind = "update"
      /\ \E i \in 1..Len(calls) : calls[i].fn.ret = "throw" )
        => thrown # "none"

\* The token the dispatcher executes for the update upd of a user with the
\* session data sess: the callback data of a callback query, the reply
\* table's entry for a text; << >> when it executes none.
Carried(sess, upd) ==
    IF upd.kind = "text" /\ upd.text # << >> /\ upd.text \in DOMAIN sess.reply
    THEN sess.reply[upd.text]
    ELSE IF upd.kind = "cbq" /\ isCallbackData(upd.text) THEN upd.text
    ELSE << >>

\* C19 (UnknownCallback is recoverable): for a callback query or reply-keyboard
\* text that carries a _cb token whose identifier is not in the registry, no
\* error reaches the host, the dispatcher invokes no handler and the update
\* goes on to the next middleware.
UnknownCallbackRecoverable ==
    [][ ( /\ op'.kind = "update"
          /\ Carried(session[op'.user], op'.inp) # << >>
          /\ splitCallbackData(Carried(session[op'.user], op'.inp)).prefix
                 = << "_", "c", "b" >>
          /\ splitCallbackData(Carried(session[op'.user], op'.inp)).hash
                 \notin DOMAIN callbackRegistry )
        => /\ thrown' = "none"
           /\ ~flow'.dispatched
           /\ flow'.waitRan ]_vars

\* C20 (SessionCallbackNotFound is recoverable): for an update that carries a
\* _ch token whose short hash is not in the user's session params table, no
\* error reaches the host, the dispatcher invokes no handler and the update
\* goes on to the next middleware.
SessionCallbackRecoverable ==
    [][ ( /\ op'.kind = "update"
          /\ Carried(session[op'.user], op'.inp) # << >>
          /\ splitCallbackData(Carried(session[op'.user], op'.inp)).prefix
                 = << "_", "c", "h" >>
          /\ splitCallbackData(Carried(session[op'.user], op'.inp)).hash
                 \notin DOMAIN session[op'.user].params )
        => /\ thrown' = "none"
           /\ ~flow'.dispatched
           /\ flow'.waitRan ]_vars

\* C21 (malformed tokens never crash): for a string that is not a token,
\* splitCallbackData returns the empty triple without throwing, and
\* executeCallback and the dispatcher invoke no handler and raise nothing; the
\* dispatcher lets the update fall through.
MalformedNeverCrash ==
    /\ op.kind = "split" => (thrown = "none" /\ op.out = << << >>, << >>, << >> >>)
    /\ op.kind = "executeRaw" => (thrown = "none" /\ calls = << >>)
    /\ (op.kind = "update" /\ op.inp.kind = "cbq" /\ op.inp.text \in RawTokens)
           => (thrown = "none" /\ calls = << >> /\ flow.waitRan)

\* C22 (wait before dispatch): for an update that arrives while the user has a
\* Wait State, a dispatcher invokes a handler only after the wait protocol was
\* evaluated and reported the update not handled.
WaitBeforeDispatch ==
    [][ ( /\ op'.kind = "update"
          /\ session[op'.user].wait # << >>
          /\ flow'.dispatched )
        => /\ flow'.waitRan
           /\ ~flow'.handled
           /\ WaitCalls(calls', flow') = << >> ]_vars

NonInterference ==
    [][ \A b \in Users :
          ( op'.kind \in { "update", "api" } /\ op'.user # b )
          => /\ session'[b] = session[b]
             /\ contextCache'[b] = contextCache[b] ]_vars

\* Every function of the tree cbs was given is registered (again).
Populated(tree) == \A i \in 1..Len(tree) : fnHash[tree[i].fn] # << >>

\* The invocation a _cb token t stands for, for user u and the trailing
\* arguments extra: the function of the tree whose source and path give the
\* identifier in t, with the arguments t carries.
Meant(tree, t, u, extra) ==
    { << [fn |-> tree[i].fn, user |-> u,
          args |-> (IF splitCallbackData(t).paramsJson # << >>
                    THEN JSONParse(splitCallbackData(t).paramsJson).val
                    ELSE << >>) \o extra] >> :
        i \in { j \in 1..Len(tree) :
                  calculateFunctionHashWithPath(tree[j].fn, tree[j].path)
                      = splitCallbackData(t).hash } }

\* C25 (restart safety): once the registrations have been run (again, after a
\* restart that emptied the registry), a _cb token held in a button, in the
\* reply table or in the Wait State dispatches to the function registered
\* under the same source and path, with the token's arguments.
RestartSafe ==
    [][ ( op'.kind = "update" /\ Populated(TreeResume) )
        => /\ ( /\ Carried(session[op'.user], op'.inp) # << >>
                /\ splitCallbackData(Carried(session[op'.user], op'.inp)).prefix
                       = << "_", "c", "b" >> )
              => /\ Len(calls') >= 1
                 /\ SubSeq(calls', 1, 1)
                        \in Meant(TreeResume, Carried(session[op'.user], op'.inp),
                                  op'.user, << >>)
           /\ Resolution
              => WaitCalls(calls', flow')
                     \in Meant(TreeResume,
                               SeenWait(session[op'.user].wait, calls', flow')[1].handlerId,
                               op'.user, TextArg(TextOf(op'.inp))) ]_vars

\* C25: the reply table's entry for hello was made from greet('ann'); the
\* process has restarted since (no partial application is alive) and cbs has
\* run again; the text hello was dispatched to greet with 'ann'.
RestartSafeWitness ==
    /\ op.kind = "update"
    /\ op.inp = [kind |-> "text", text |-> Hello]
    /\ curried = << >>
    /\ Populated(TreeResume)
    /\ Hello \in DOMAIN session[1].reply
    /\ splitCallbackData(session[1].reply[Hello]).paramsJson # << >>
    /\ calls # << >>
    /\ calls[1] = [fn |-> greet, user |-> 1, args |-> << Ann >>]

\* The positions of the buttons of a keyboard that carry a token and the text.
Carrying(buttons, text) ==
    { i \in 1..Len(buttons) : buttons[i].text = text /\ DataOf(buttons[i]) # << >> }

\* C26 (reply-keyboard hook): for an outgoing payload with reply-keyboard
\* buttons to a chat id under which a context is cached, the user's reply
\* table afterwards maps the text of every button that carries a token to that
\* token (the last one, for buttons of one text), has no other new or changed
\* entry, and the payload is forwarded with both token fields of these buttons
\* removed and the buttons without a token as they were.
ReplyHookRecords ==
    [][ ( op'.kind = "api" /\ Cached(contextCache, op'.data) # 0 )
        => /\ \A i \in 1..Len(op'.inp) :
                 DataOf(op'.inp[i]) # << >>
                 => /\ op'.inp[i].text \in DOMAIN session'[op'.data].reply
                    /\ session'[op'.data].reply[op'.inp[i].text]
                           = DataOf(op'.inp[MaxOf(Carrying(op'.inp, op'.inp[i].text))])
           /\ \A k \in DOMAIN session'[op'.data].reply :
                 Carrying(op'.inp, k) = {}
                 => /\ k \in DOMAIN session[op'.data].reply
                    /\ session'[op'.data].reply[k] = session[op'.data].reply[k]
           /\ DOMAIN session[op'.data].reply \subseteq DOMAIN session'[op'.data].reply
           /\ Len(forwarded') = 1
           /\ forwarded'[1].chat_id = op'.data
           /\ Len(forwarded'[1].keyboard) = Len(op'.inp)
           /\ \A i \in 1..Len(op'.inp) :
                 IF DataOf(op'.inp[i]) # << >>
                 THEN forwarded'[1].keyboard[i]
                          = [text |-> op'.inp[i].text, callback_data |-> << >>,
                             _callback_data |-> << >>]
                 ELSE forwarded'[1].keyboard[i] = op'.inp[i] ]_vars

\* C26: a keyboard with a plain /cancel button and a hello button made from
\* echo went to user 2, whose context is cached: hello is in the table, /cancel
\* is not, and the forwarded hello button has no token fields.
ReplyHookWitness ==
    /\ op.kind = "api"
    /\ op.data = 2
    /\ contextCache[2] # 0
    /\ Len(op.inp) = 2
    /\ op.inp[1] = PlainButton(Cancel)
    /\ op.inp[2].callback_data # << >>
    /\ session[2].reply = (Hello :> op.inp[2].callback_data)
    /\ forwarded = << [chat_id |-> 2, keyboard |-> << PlainButton(Cancel), PlainButton(Hello) >>] >>

\* C27 (reply-keyboard hook skip): for an outgoing payload with reply-keyboard
\* buttons to a chat id under which no context is cached, the hook raises
\* nothing, changes no user's state and forwards the call.
ReplyHookSkips ==
    [][ ( op'.kind = "api" /\ Cached(contextCache, op'.data) = 0 )
        => /\ thrown' = "none"
           /\ session' = session
           /\ contextCache' = contextCache
           /\ forwarded' = << [chat_id |-> op'.data, keyboard |-> op'.inp] >> ]_vars

\* C27: a keyboard with a token went to user 2, for whom no context is cached,
\* and was forwarded; user 2's reply table is empty.
ReplyHookSkipWitness ==
    /\ op.kind = "api"
    /\ op.data = 2
    /\ contextCache[2] = 0
    /\ \E i \in 1..Len(op.inp) : DataOf(op.inp[i]) # << >>
    /\ forwarded # << >>
    /\ DOMAIN session[2].reply = {}
    /\ thrown = "none"

\* C29 (context cache eviction): every context placed in the cache is
\* eventually out of it, overwritten by a later update of the user or deleted
\* by its timer, also when the chain below the context middleware throws.
\* Runs that end because the model's bound on contexts is reached are left
\* aside: the context must go while further updates are still possible.
CacheEvicted ==
    \A u \in Users : \A c \in 1..MaxContexts :
        (contextCache[u] = c) ~> (contextCache[u] # c \/ ctxSeq = MaxContexts)

\* C30 (timer sweep safety): the timer scheduled for the context of an update
\* of user u empties u's slot only if the slot holds that context; a newer
\* context stays, and the slots of the other users are as they were.
SweepSafe ==
    [][ op'.kind = "sweep"
        => /\ contextCache'[op'.user]
                  = IF contextCache[op'.user] = op'.inp.ctx THEN 0
                    ELSE contextCache[op'.user]
           /\ \A u \in Users \ { op'.user } : contextCache'[u] = contextCache[u] ]_vars

\* C30: the timer of an older context of a user has fired while a newer one
\* was cached; the newer one and the other user's context are in the cache.
SweepSafeWitness ==
    /\ op.kind = "sweep"
    /\ contextCache[op.user] > op.inp.ctx
    /\ \E u \in Users \ { op.user } : contextCache[u] # 0

\* C28 (same-user race): as long as the updates of a user were handled one
\* after the other, the target of one pause (one Wait State object) whose
\* handler does not return false has been invoked at most once.  The witness
\* is the race: two updates handled in parallel both read the same Wait State
\* and both invoked its target.
SerializedResolvesOnce ==
    \A id \in 1..Len(hits) :
        ( hits[id].user \notin overlapped /\ hits[id].fn.ret # "false" )
            => hits[id].n <= 1

\* C28: two resolutions of user 1 were in flight at once, greet was invoked
\* twice for one Wait State, and the resolution that ended last found the slot
\* already emptied by the other.
SameUserRaceWitness ==
    /\ op.kind = "end"
    /\ op.user \in overlapped
    /\ inflight = << >>
    /\ session[op.user].wait = << >>
    /\ hits[op.inp.read] = [user |-> op.user, fn |-> greet, n |-> 2]


\* C31 (token split): for a token <scheme>:<key>:<rest> splitCallbackData
\* returns the scheme, the key and the rest, the rest being everything after
\* the second colon as it is, further colons included; for <scheme>:<key>
\* without a remainder the third field is undefined.
TokenSplit ==
    \A p \in FormedParts :
        (op.kind = "split" /\ op.data = Compose(p))
            => (thrown = "none" /\ op.out = << p.scheme, p.key, p.rest >>)

TokenSplitWitness ==
    /\ op.kind = "split"
    /\ op.data = << "_", "c", "b", ":", "a", "b", ":", "a", ":", "b" >>
    /\ op.out = << << "_", "c", "b" >>, << "a", "b" >>, << "a", ":", "b" >> >>


\* C32 (scheme exactness): executeCallback invokes a handler only for a token
\* whose scheme tag is _cb or _ch; a token with another three-character tag
\* that starts with an underscore invokes no handler.
SchemeExact ==
    (op.kind = "executeRaw" /\ Slice(op.data, 0, 3) \notin { << "_", "c", "b" >>, << "_", "c", "h" >> })
        => calls = << >>


\* The characters [A-Za-z0-9].
AlphaNum == Chars \ { "_", ":", ".", "/", ",", "[", "]", "\"", "\\" }

\* C34 (identifier grammar): every identifier cb or cbs registers a function
\* under consists of characters [A-Za-z0-9] only and is 8 to 16 characters
\* long.
IdentifierGrammar ==
    \A id \in DOMAIN callbackRegistry :
        /\ Len(id) \in 8..16
        /\ \A i \in 1..Len(id) : id[i] \in AlphaNum

\* C35 (rendered tokens are resolvable): the identifier inside the token of
\* every curried callback obtained from cb or cbs, at any depth of partial
\* application, is bound in the registry to the function the callback was
\* curried from.
TokensResolvable ==
    \A h \in Held :
        LET id == splitCallbackData(toCallbackData(h.c, fnHash)).hash
        IN  id \in DOMAIN callbackRegistry /\ callbackRegistry[id] = h.c.origin


\* C33 (anchor deletion is best-effort): whenever a Wait State is cleared (by
\* the cancel keyword, by completion, by a new wait() or by clearWaitState),
\* deletion of its anchor message is asked for exactly once if its messageId
\* is not 0 and not at all if it is 0; when the deletion fails the Wait State
\* stays removed and no error reaches the caller or the host.
AnchorBestEffort ==
    [][ /\ \A u \in Users :
             ( /\ session[u].wait # << >>
               /\ \/ op'.kind \in { "wait", "clear" } /\ op'.user = u
                  \/ session'[u].wait # session[u].wait )
                 => /\ thrown' = "none"
                    /\ deleted' = IF session[u].wait[1].messageId # 0
                                  THEN << session[u].wait[1].messageId >> ELSE << >>
        /\ op'.kind = "deleteSettled"
              => (thrown' = "none" /\ session' = session) ]_vars


\* C36 (the callback-query dispatcher consumes the update): when the
\* callback_query handler executes a registered handler for a well-formed
\* token and the handler does not throw, whatever it returns (undefined
\* included), the next middleware is not invoked, as with handleText.  The
\* result false, which handleText passes on, is left aside.
CallbackQueryConsumes ==
    ( /\ op.kind = "update"
      /\ op.inp.kind = "cbq"
      /\ isCallbackData(op.inp.text)
      /\ flow.dispatched
      /\ thrown = "none"
      /\ calls[1].fn.ret # "false" )
        => ~flow.waitRan


\* C37 (one handler invocation for an update): with setupCallbacks followed
\* by waitMiddleware, one inbound update makes the core invoke at most one
\* registered handler: the dispatcher's or the Wait State's target, never
\* both.
OneInvocation == op.kind = "update" => Len(calls) <= 1


\* C38 (updates with no identifiable user pass through): for an update whose
\* context has no from id the chain of the context middleware, the
\* dispatchers and waitMiddleware raises no error, touches no per-user state
\* and hands the update to the next middleware.
NoUserPassThrough ==
    [][ op'.kind = "anonymous"
          => /\ thrown' = "none"
             /\ flow'.next
             /\ UNCHANGED << session, contextCache, timers >> ]_vars

====
